---- MODULE Spec2Model ----
(***************************************************************************)
(* Model of src/config/database_pools.rs: the resolution of the database   *)
(* pool settings from the process environment                              *)
(* (DatabasePools::full_from_environment) and the accessor                 *)
(* DatabasePools::are_all_read_only.                                       *)
(*                                                                         *)
(* Option<T> is a sequence of length at most one: None is <<>> and Some(v) *)
(* is <<v>>.  The value of a numeric environment variable is the sequence  *)
(* of its characters, so that str::parse is computed and not assumed.      *)
(* URLs, DB_OFFLINE and READ_ONLY_MODE are only ever compared or tested    *)
(* for presence, and are TLA+ strings.                                     *)
(*                                                                         *)
(* A panic of the function (env(), Option::expect, Result::expect) is an   *)
(* outcome of kind "MissingRequiredValue" or "InvalidNumericValue" that    *)
(* carries no DatabasePools value.                                         *)
(***************************************************************************)
EXTENDS Integers, Sequences, FiniteSets

VARIABLES environment, base, pc, outcome, all_read_only

vars == <<environment, base, pc, outcome, all_read_only>>

----------------------------------------------------------------------------
(* Option<T> *)

None == <<>>

Some(v) == <<v>>

IsSome(o) == Len(o) = 1

Unwrap(o) == o[1]

----------------------------------------------------------------------------
(* The environment variables the function reads, in the order it reads them *)

NumericVars ==
    << "DB_PRIMARY_POOL_SIZE", "DB_REPLICA_POOL_SIZE", "DB_PRIMARY_MIN_IDLE",
       "DB_REPLICA_MIN_IDLE", "DB_TCP_TIMEOUT_MS", "DB_TIMEOUT",
       "DB_HELPER_THREADS" >>

NumericVarSet == {NumericVars[i] : i \in DOMAIN NumericVars}

----------------------------------------------------------------------------
(* str::parse::<u32 | u64 | usize>() *)

Digit == {"0", "1", "2", "3", "4", "5", "6", "7", "8", "9"}

DigitValue(c) ==
    CASE c = "0" -> 0 [] c = "1" -> 1 [] c = "2" -> 2 [] c = "3" -> 3
      [] c = "4" -> 4 [] c = "5" -> 5 [] c = "6" -> 6 [] c = "7" -> 7
      [] c = "8" -> 8 [] c = "9" -> 9

\* u32::MAX = 4294967295 and u64::MAX = 18446744073709551615, as digits
U32Max == <<4, 2, 9, 4, 9, 6, 7, 2, 9, 5>>

U64Max == <<1, 8, 4, 4, 6, 7, 4, 4, 0, 7, 3, 7, 0, 9, 5, 5, 1, 6, 1, 5>>

\* usize on a 64-bit target
UsizeMax == U64Max

RECURSIVE StripZeros(_)
StripZeros(ds) ==
    IF ds # <<>> /\ Head(ds) = 0 THEN StripZeros(Tail(ds)) ELSE ds

RECURSIVE LexLeq(_, _)
\* a <= b for digit sequences of the same length
LexLeq(a, b) ==
    IF a = <<>> THEN TRUE
    ELSE IF Head(a) < Head(b) THEN TRUE
    ELSE IF Head(a) > Head(b) THEN FALSE
    ELSE LexLeq(Tail(a), Tail(b))

\* the number written by the digits ds is at most the one written by max
FitsIn(ds, max) ==
    LET s == StripZeros(ds)
    IN  \/ Len(s) < Len(max)
        \/ Len(s) = Len(max) /\ LexLeq(s, max)

RECURSIVE Accumulate(_, _)
Accumulate(acc, ds) ==
    IF ds = <<>> THEN acc ELSE Accumulate(acc * 10 + Head(ds), Tail(ds))

\* Ok(n) is Some(n); Err(ParseIntError) is None
ParseUnsigned(src, max) ==
    IF src = <<>> THEN None                               \* Empty
    ELSE IF src = <<"+">> \/ src = <<"-">> THEN None      \* InvalidDigit
    ELSE LET digits == IF Head(src) = "+" THEN Tail(src) ELSE src
         IN  IF \E i \in DOMAIN digits : digits[i] \notin Digit
             THEN None                                    \* InvalidDigit
             ELSE LET ds == [i \in DOMAIN digits |-> DigitValue(digits[i])]
                  IN  IF FitsIn(ds, max)
                      THEN Some(Accumulate(0, ds))
                      ELSE None                           \* PosOverflow

----------------------------------------------------------------------------
(* Reading the environment *)

\* dotenvy::var(name): Ok(value) is Some(value), Err(_) (not set) is None
dotenvy_var(e, name) == e[name]

\* The result of evaluating one `let` of the function: the value bound, or
\* the panic that ended the function there
Returned(v) == [panic |-> None, value |-> v]

Panicked(kind, name) == [panic |-> Some([kind |-> kind, var |-> name]), value |-> None]

\* crate::env(name): the value of a variable that must be set
env(e, name) ==
    LET v == dotenvy_var(e, name)
    IN  IF IsSome(v) THEN Returned(Unwrap(v))
        ELSE Panicked("MissingRequiredValue", name)

\* Variant: a value that does not parse is taken as not set (.parse().ok())
parse_var_lenient(e, name, max) ==
    LET v == dotenvy_var(e, name)
    IN  IF IsSome(v) THEN Returned(ParseUnsigned(Unwrap(v), max))
        ELSE Returned(None)

\* match dotenvy::var(name) { Ok(num) => num.parse().expect(..), _ => .. }:
\* Some(n) when the variable is set and parses, None when it is not set, and
\* a panic when it is set and does not parse
parse_var(e, name, max) ==
    LET v == dotenvy_var(e, name)
    IN  IF IsSome(v)
        THEN LET n == ParseUnsigned(Unwrap(v), max)
             IN  IF IsSome(n) THEN Returned(n)
                 ELSE Panicked("InvalidNumericValue", name)
        ELSE Returned(None)

\* the same with a default: `_ => default`
unwrap_or(r, default) ==
    IF IsSome(r.panic) THEN r
    ELSE Returned(IF IsSome(r.value) THEN Unwrap(r.value) ELSE default)

\* Duration::from_secs
from_secs(n) == [secs |-> n, nanos |-> 0]

map_from_secs(r) ==
    IF IsSome(r.panic) THEN r ELSE Returned(from_secs(r.value))

----------------------------------------------------------------------------
(* DatabasePools::full_from_environment *)

DEFAULT_POOL_SIZE == 3

leader_url(e) == env(e, "DATABASE_URL")

follower_url(e) == Returned(dotenvy_var(e, "READ_ONLY_REPLICA_URL"))

\* Variant: READ_ONLY_MODE counts only when it is not empty
read_only_mode_nonempty(e) ==
    Returned(IsSome(dotenvy_var(e, "READ_ONLY_MODE"))
             /\ dotenvy_var(e, "READ_ONLY_MODE") # Some(""))

\* dotenvy::var("READ_ONLY_MODE").is_ok()
read_only_mode(e) == Returned(IsSome(dotenvy_var(e, "READ_ONLY_MODE")))

primary_pool_size(e) ==
    unwrap_or(parse_var(e, "DB_PRIMARY_POOL_SIZE", U32Max), DEFAULT_POOL_SIZE)

replica_pool_size(e) ==
    unwrap_or(parse_var(e, "DB_REPLICA_POOL_SIZE", U32Max), DEFAULT_POOL_SIZE)

primary_min_idle(e) == parse_var(e, "DB_PRIMARY_MIN_IDLE", U32Max)

replica_min_idle(e) == parse_var(e, "DB_REPLICA_MIN_IDLE", U32Max)

tcp_timeout_ms(e) ==
    unwrap_or(parse_var(e, "DB_TCP_TIMEOUT_MS", U64Max), 15 * 1000)

connection_timeout(e) ==
    map_from_secs(unwrap_or(parse_var(e, "DB_TIMEOUT", U64Max), 30))

\* Variant: the statement timeout keeps its own default
statement_timeout_default(ct) == from_secs(30)

\* let statement_timeout = connection_timeout
statement_timeout(ct) == ct

helper_threads(e) ==
    unwrap_or(parse_var(e, "DB_HELPER_THREADS", UsizeMax), 3)

enforce_tls(b) == b.env = "Production"

\* The `let`s of the function in the order they are evaluated
EvalOrder ==
    << "leader_url", "follower_url", "read_only_mode", "primary_pool_size",
       "replica_pool_size", "primary_min_idle", "replica_min_idle",
       "tcp_timeout_ms", "connection_timeout", "helper_threads" >>

Locals(e) ==
    [ leader_url         |-> leader_url(e),
      follower_url       |-> follower_url(e),
      read_only_mode     |-> read_only_mode(e),
      primary_pool_size  |-> primary_pool_size(e),
      replica_pool_size  |-> replica_pool_size(e),
      primary_min_idle   |-> primary_min_idle(e),
      replica_min_idle   |-> replica_min_idle(e),
      tcp_timeout_ms     |-> tcp_timeout_ms(e),
      connection_timeout |-> connection_timeout(e),
      helper_threads     |-> helper_threads(e) ]

HasPanic(l, order) == \E i \in DOMAIN order : IsSome(l[order[i]].panic)

\* the first `let` of `order` that panics
FirstPanic(l, order) ==
    LET i == CHOOSE i \in DOMAIN order :
                 /\ IsSome(l[order[i]].panic)
                 /\ \A j \in 1 .. (i - 1) : ~IsSome(l[order[j]].panic)
    IN  Unwrap(l[order[i]].panic)

\* What a call ends in: Ok(DatabasePools), or a panic
Ok(pools) == [kind |-> "Ok", var |-> "", pools |-> Some(pools)]

Panic(p) == [kind |-> p.kind, var |-> p.var, pools |-> None]

\* The values bound by the `let`s, once none of them has panicked
Bound(b, l) ==
    [ leader_url         |-> l.leader_url.value,
      follower_url       |-> l.follower_url.value,
      read_only_mode     |-> l.read_only_mode.value,
      primary_pool_size  |-> l.primary_pool_size.value,
      replica_pool_size  |-> l.replica_pool_size.value,
      primary_min_idle   |-> l.primary_min_idle.value,
      replica_min_idle   |-> l.replica_min_idle.value,
      tcp_timeout_ms     |-> l.tcp_timeout_ms.value,
      connection_timeout |-> l.connection_timeout.value,
      statement_timeout  |-> statement_timeout(l.connection_timeout.value),
      helper_threads     |-> l.helper_threads.value,
      enforce_tls        |-> enforce_tls(b) ]

DbPoolConfig(url, rom, size, idle) ==
    [url |-> url, read_only_mode |-> rom, pool_size |-> size, min_idle |-> idle]

DatabasePools(s, primary, replica) ==
    [ primary            |-> primary,
      replica            |-> replica,
      tcp_timeout_ms     |-> s.tcp_timeout_ms,
      connection_timeout |-> s.connection_timeout,
      statement_timeout  |-> s.statement_timeout,
      helper_threads     |-> s.helper_threads,
      enforce_tls        |-> s.enforce_tls ]

\* Variant: without a replica URL the leader's URL is used
LeaderOfflineFallback(s) ==
    Ok(DatabasePools(s,
         DbPoolConfig(IF IsSome(s.follower_url) THEN Unwrap(s.follower_url)
                      ELSE s.leader_url,
                      TRUE, s.primary_pool_size, s.primary_min_idle),
         None))

\* Variant: the primary is read-only only under READ_ONLY_MODE
LeaderOfflineNotForced(s) ==
    IF IsSome(s.follower_url)
    THEN Ok(DatabasePools(s,
              DbPoolConfig(Unwrap(s.follower_url), s.read_only_mode,
                           s.primary_pool_size, s.primary_min_idle),
              None))
    ELSE Panic([kind |-> "MissingRequiredValue", var |-> "READ_ONLY_REPLICA_URL"])

\* Ok("leader") => ..: follower_url.expect(..) panics on None
LeaderOffline(s) ==
    IF IsSome(s.follower_url)
    THEN Ok(DatabasePools(s,
              DbPoolConfig(Unwrap(s.follower_url), TRUE,
                           s.primary_pool_size, s.primary_min_idle),
              None))
    ELSE Panic([kind |-> "MissingRequiredValue", var |-> "READ_ONLY_REPLICA_URL"])

\* Variant: the replica is read-only only under READ_ONLY_MODE
ReplicaInheritsMode(s) ==
    IF IsSome(s.follower_url)
    THEN Some(DbPoolConfig(Unwrap(s.follower_url), s.read_only_mode,
                           s.replica_pool_size, s.replica_min_idle))
    ELSE None

\* follower_url.map(|url| DbPoolConfig { url, read_only_mode: true, .. })
Replica(s) ==
    IF IsSome(s.follower_url)
    THEN Some(DbPoolConfig(Unwrap(s.follower_url), TRUE,
                           s.replica_pool_size, s.replica_min_idle))
    ELSE None

\* Variant: the replica is still configured
FollowerOfflineKeepsReplica(s) ==
    Ok(DatabasePools(s,
         DbPoolConfig(s.leader_url, s.read_only_mode,
                      s.primary_pool_size, s.primary_min_idle),
         Replica(s)))

\* Ok("follower") => ..
FollowerOffline(s) ==
    Ok(DatabasePools(s,
         DbPoolConfig(s.leader_url, s.read_only_mode,
                      s.primary_pool_size, s.primary_min_idle),
         None))

\* _ => ..
Normal(s) ==
    Ok(DatabasePools(s,
         DbPoolConfig(s.leader_url, s.read_only_mode,
                      s.primary_pool_size, s.primary_min_idle),
         Replica(s)))

\* Variant: DB_OFFLINE is matched whatever its case
MatchOfflineAnyCase(offline, s) ==
    IF offline \in {Some("leader"), Some("LEADER")} THEN LeaderOffline(s)
    ELSE IF offline \in {Some("follower"), Some("FOLLOWER")} THEN FollowerOffline(s)
    ELSE Normal(s)

\* match dotenvy::var("DB_OFFLINE").as_deref()
MatchOffline(offline, s) ==
    IF offline = Some("leader") THEN LeaderOffline(s)
    ELSE IF offline = Some("follower") THEN FollowerOffline(s)
    ELSE Normal(s)

\* Variant: DATABASE_URL is not read when DB_OFFLINE=leader
full_from_environment_lazy_url(b, e) ==
    LET l == Locals(e)
        order == IF dotenvy_var(e, "DB_OFFLINE") = Some("leader")
                 THEN Tail(EvalOrder) ELSE EvalOrder
    IN  IF HasPanic(l, order) THEN Panic(FirstPanic(l, order))
        ELSE MatchOffline(dotenvy_var(e, "DB_OFFLINE"), Bound(b, l))

\* The whole function: the first panicking `let` ends it, else the match
full_from_environment(b, e) ==
    LET l == Locals(e)
    IN  IF HasPanic(l, EvalOrder) THEN Panic(FirstPanic(l, EvalOrder))
        ELSE MatchOffline(dotenvy_var(e, "DB_OFFLINE"), Bound(b, l))

----------------------------------------------------------------------------
(* DatabasePools::are_all_read_only *)

\* Variant: only the replica is looked at
are_all_read_only_replica_only(self) ==
    IF IsSome(self.replica) THEN Unwrap(self.replica).read_only_mode ELSE TRUE

are_all_read_only(self) == self.primary.read_only_mode

----------------------------------------------------------------------------
(* The environments and deployment environments the function is run on *)

\* At most this many of the seven numeric variables are set at once
MaxNumericVars == 2

UrlVars == {"DATABASE_URL", "READ_ONLY_REPLICA_URL"}

AllVars == UrlVars \cup {"READ_ONLY_MODE", "DB_OFFLINE"} \cup NumericVarSet

\* The values a numeric variable is given when it is set
Candidates(name) ==
    CASE name = "DB_PRIMARY_POOL_SIZE" -> {<<"7">>, <<"a", "b", "c">>, <<>>}
      [] name = "DB_REPLICA_POOL_SIZE" -> {<<"1", "0">>, <<"+", "5">>, <<"-", "1">>}
      [] name = "DB_PRIMARY_MIN_IDLE"  ->
            {<<"0">>, <<"0", "0", "2">>,
             <<"4", "2", "9", "4", "9", "6", "7", "2", "9", "6">>}
      [] name = "DB_REPLICA_MIN_IDLE"  -> {<<"2">>, <<" ", "2">>, <<"+">>}
      [] name = "DB_TCP_TIMEOUT_MS"    ->
            {<<"5", "0", "0", "0">>, <<"5", "s">>,
             <<"1", "8", "4", "4", "6", "7", "4", "4", "0", "7", "3", "7", "0",
               "9", "5", "5", "1", "6", "1", "6">>}
      [] name = "DB_TIMEOUT"           -> {<<"6", "0">>, <<"3", "0">>, <<"1", ".", "5">>}
      [] name = "DB_HELPER_THREADS"    -> {<<"4">>, <<"0", "x", "1", "0">>, <<"-">>}

Settings(name) ==
    CASE name = "DATABASE_URL"          -> {None, Some("postgres://leader")}
      [] name = "READ_ONLY_REPLICA_URL" ->
            {None, Some("postgres://follower"), Some("postgres://leader")}
      [] name = "READ_ONLY_MODE"        -> {None, Some(""), Some("1")}
      [] name = "DB_OFFLINE"            ->
            {None, Some("leader"), Some("follower"), Some("LEADER"), Some("")}
      [] OTHER -> {None} \cup {Some(c) : c \in Candidates(name)}

NumericEnvironments ==
    { n \in [ DB_PRIMARY_POOL_SIZE : Settings("DB_PRIMARY_POOL_SIZE"),
              DB_REPLICA_POOL_SIZE : Settings("DB_REPLICA_POOL_SIZE"),
              DB_PRIMARY_MIN_IDLE  : Settings("DB_PRIMARY_MIN_IDLE"),
              DB_REPLICA_MIN_IDLE  : Settings("DB_REPLICA_MIN_IDLE"),
              DB_TCP_TIMEOUT_MS    : Settings("DB_TCP_TIMEOUT_MS"),
              DB_TIMEOUT           : Settings("DB_TIMEOUT"),
              DB_HELPER_THREADS    : Settings("DB_HELPER_THREADS") ] :
        Cardinality({v \in NumericVarSet : IsSome(n[v])}) <= MaxNumericVars }

OtherEnvironments ==
    [ DATABASE_URL          : Settings("DATABASE_URL"),
      READ_ONLY_REPLICA_URL : Settings("READ_ONLY_REPLICA_URL"),
      READ_ONLY_MODE        : Settings("READ_ONLY_MODE"),
      DB_OFFLINE            : Settings("DB_OFFLINE") ]

Merge(o, n) == [v \in AllVars |-> IF v \in NumericVarSet THEN n[v] ELSE o[v]]

\* base.env: whether the deployment is the production one
Bases == {[env |-> "Production"], [env |-> "Development"]}

----------------------------------------------------------------------------
(* The state machine: the process starts with its environment, resolves    *)
(* the pools once, and, when that succeeded, may ask are_all_read_only     *)

Init ==
    /\ \E o \in OtherEnvironments, n \in NumericEnvironments :
           environment = Merge(o, n)
    /\ base \in Bases
    /\ pc = "start"
    /\ outcome = None
    /\ all_read_only = None

Resolve ==
    /\ pc = "start"
    /\ LET r == full_from_environment(base, environment)
       IN  /\ outcome' = Some(r)
           /\ pc' = IF r.kind = "Ok" THEN "resolved" ELSE "panicked"
    /\ UNCHANGED <<environment, base, all_read_only>>

AreAllReadOnly ==
    /\ pc = "resolved"
    /\ all_read_only' = Some(are_all_read_only(Unwrap(Unwrap(outcome).pools)))
    /\ UNCHANGED <<environment, base, pc, outcome>>

Next == Resolve \/ AreAllReadOnly

Spec == Init /\ [][Next]_vars

----------------------------------------------------------------------------
(* Vocabulary of the properties *)

Done == pc # "start"

Result == Unwrap(outcome)

Succeeded == Done /\ Result.kind = "Ok"

Pools == Unwrap(Result.pools)

IsSet(name) == IsSome(environment[name])

Value(name) == Unwrap(environment[name])

LeaderMode == environment["DB_OFFLINE"] = Some("leader")

FollowerMode == environment["DB_OFFLINE"] = Some("follower")

NormalMode == ~LeaderMode /\ ~FollowerMode

\* Every pool configured in p is read-only
AllPoolsReadOnly(p) ==
    /\ p.primary.read_only_mode
    /\ IsSome(p.replica) => Unwrap(p.replica).read_only_mode

\* What Rust's unsigned from_str gives for the strings the numeric variables
\* are set to, written out by hand: Some(n) for a well-formed string, None
\* for a malformed one
Decimal(s) ==
    CASE s = <<"7">>                -> Some(7)
      [] s = <<"1", "0">>           -> Some(10)
      [] s = <<"+", "5">>           -> Some(5)
      [] s = <<"0">>                -> Some(0)
      [] s = <<"0", "0", "2">>      -> Some(2)
      [] s = <<"2">>                -> Some(2)
      [] s = <<"5", "0", "0", "0">> -> Some(5000)
      [] s = <<"6", "0">>           -> Some(60)
      [] s = <<"3", "0">>           -> Some(30)
      [] s = <<"4">>                -> Some(4)
      [] OTHER                      -> None

WellFormed(name) == IsSet(name) /\ IsSome(Decimal(Value(name)))

Malformed(name) == IsSet(name) /\ ~IsSome(Decimal(Value(name)))

SomeMalformed == \E v \in NumericVarSet : Malformed(v)

\* The declared default of a numeric setting: Some(n), or None for "unset"
Default(name) ==
    CASE name \in {"DB_PRIMARY_POOL_SIZE", "DB_REPLICA_POOL_SIZE",
                   "DB_HELPER_THREADS"} -> Some(3)
      [] name \in {"DB_PRIMARY_MIN_IDLE", "DB_REPLICA_MIN_IDLE"} -> None
      [] name = "DB_TCP_TIMEOUT_MS" -> Some(15000)
      [] name = "DB_TIMEOUT" -> Some(30)

\* The setting of the result a numeric variable configures appears in p
Appears(name, p) ==
    name \in {"DB_REPLICA_POOL_SIZE", "DB_REPLICA_MIN_IDLE"} => IsSome(p.replica)

\* That setting, as Some(n) or None for "unset"
Setting(name, p) ==
    CASE name = "DB_PRIMARY_POOL_SIZE" -> Some(p.primary.pool_size)
      [] name = "DB_REPLICA_POOL_SIZE" -> Some(Unwrap(p.replica).pool_size)
      [] name = "DB_PRIMARY_MIN_IDLE"  -> p.primary.min_idle
      [] name = "DB_REPLICA_MIN_IDLE"  -> Unwrap(p.replica).min_idle
      [] name = "DB_TCP_TIMEOUT_MS"    -> Some(p.tcp_timeout_ms)
      [] name = "DB_TIMEOUT"           ->
            IF p.connection_timeout.nanos = 0
            THEN Some(p.connection_timeout.secs) ELSE None
      [] name = "DB_HELPER_THREADS"    -> Some(p.helper_threads)

----------------------------------------------------------------------------
(* Properties *)

\* C1: whenever resolution succeeded, in any DB_OFFLINE mode and with or
\* without READ_ONLY_MODE, a replica in the result has read_only_mode true.
C1_ReplicaAlwaysReadOnly ==
    (Succeeded /\ IsSome(Pools.replica)) => Unwrap(Pools.replica).read_only_mode = TRUE

C1_Witness ==
    /\ Succeeded
    /\ IsSome(Pools.replica)
    /\ ~IsSet("READ_ONLY_MODE")
    /\ ~Pools.primary.read_only_mode

\* C2: whenever resolution succeeded with DB_OFFLINE=leader and
\* READ_ONLY_REPLICA_URL=X, the primary's url is X (not DATABASE_URL), the
\* primary is read-only even without READ_ONLY_MODE, and there is no replica.
C2_LeaderOfflineShape ==
    (Succeeded /\ LeaderMode) =>
        /\ IsSet("READ_ONLY_REPLICA_URL")
        /\ Pools.primary.url = Value("READ_ONLY_REPLICA_URL")
        /\ Pools.primary.read_only_mode = TRUE
        /\ Pools.replica = None

C2_Witness ==
    /\ Succeeded
    /\ LeaderMode
    /\ ~IsSet("READ_ONLY_MODE")
    /\ environment["READ_ONLY_REPLICA_URL"] # environment["DATABASE_URL"]
    /\ Pools.primary.url = "postgres://follower"

\* C3 as stated: with DB_OFFLINE=leader and READ_ONLY_REPLICA_URL unset the
\* call ends in MissingRequiredValue with no DatabasePools, whatever the other
\* variables are.
C3_Original ==
    (Done /\ LeaderMode /\ ~IsSet("READ_ONLY_REPLICA_URL")) =>
        /\ Result.kind = "MissingRequiredValue"
        /\ Result.pools = None

\* C3 (amended): with DB_OFFLINE=leader and READ_ONLY_REPLICA_URL unset the
\* call always fails and gives no DatabasePools; the failure is
\* InvalidNumericValue when DATABASE_URL is set and a numeric variable is
\* malformed (the numeric variables are parsed before DB_OFFLINE is
\* looked at), and MissingRequiredValue otherwise.
C3_LeaderOfflineNeedsReplicaUrl ==
    (Done /\ LeaderMode /\ ~IsSet("READ_ONLY_REPLICA_URL")) =>
        /\ Result.pools = None
        /\ Result.kind = IF IsSet("DATABASE_URL") /\ SomeMalformed
                         THEN "InvalidNumericValue"
                         ELSE "MissingRequiredValue"

C3_Witness ==
    /\ Done
    /\ LeaderMode
    /\ ~IsSet("READ_ONLY_REPLICA_URL")
    /\ IsSet("DATABASE_URL")
    /\ Result.kind = "MissingRequiredValue"
    /\ Result.var = "READ_ONLY_REPLICA_URL"

\* C4: whenever resolution succeeded with DB_OFFLINE=follower and
\* DATABASE_URL=Y, the primary's url is Y, the primary is read-only exactly
\* when READ_ONLY_MODE is set, and there is no replica; a set
\* READ_ONLY_REPLICA_URL is discarded without error: the call ends as it
\* does with that variable unset.
C4_FollowerOfflineShape ==
    /\ (Succeeded /\ FollowerMode) =>
          /\ IsSet("DATABASE_URL")
          /\ Pools.primary.url = Value("DATABASE_URL")
          /\ Pools.primary.read_only_mode = IsSet("READ_ONLY_MODE")
          /\ Pools.replica = None
    /\ (Done /\ FollowerMode) =>
          Result = full_from_environment(
                       base, [environment EXCEPT !["READ_ONLY_REPLICA_URL"] = None])

C4_Witness ==
    /\ Succeeded
    /\ FollowerMode
    /\ IsSet("READ_ONLY_REPLICA_URL")
    /\ IsSet("READ_ONLY_MODE")
    /\ Pools.primary.url = "postgres://leader"

\* C5: whenever resolution succeeded with DB_OFFLINE unset or anything but
\* exactly `leader` or `follower`, and DATABASE_URL=Y: the primary's url is Y,
\* the primary is read-only exactly when READ_ONLY_MODE is set, and there is a
\* replica exactly when READ_ONLY_REPLICA_URL is set, with that variable's
\* value as its url and read_only_mode true.
C5_NormalShape ==
    (Succeeded /\ NormalMode) =>
        /\ IsSet("DATABASE_URL")
        /\ Pools.primary.url = Value("DATABASE_URL")
        /\ Pools.primary.read_only_mode = IsSet("READ_ONLY_MODE")
        /\ IsSome(Pools.replica) <=> IsSet("READ_ONLY_REPLICA_URL")
        /\ IsSome(Pools.replica) =>
              /\ Unwrap(Pools.replica).url = Value("READ_ONLY_REPLICA_URL")
              /\ Unwrap(Pools.replica).read_only_mode = TRUE

C5_Witness ==
    /\ Succeeded
    /\ environment["DB_OFFLINE"] = Some("LEADER")
    /\ ~IsSet("READ_ONLY_MODE")
    /\ IsSome(Pools.replica)
    /\ Unwrap(Pools.replica).url = "postgres://follower"

\* C6 as stated: with DATABASE_URL unset and DB_OFFLINE not `follower` the
\* call ends in MissingRequiredValue with no DatabasePools, and with
\* DB_OFFLINE=follower the unset DATABASE_URL is not by itself a
\* MissingRequiredValue error.
C6_Original ==
    (Done /\ ~IsSet("DATABASE_URL")) =>
        IF FollowerMode
        THEN ~(Result.kind = "MissingRequiredValue" /\ Result.var = "DATABASE_URL")
        ELSE Result.kind = "MissingRequiredValue" /\ Result.pools = None

\* C6 (amended): with DATABASE_URL unset the call ends in MissingRequiredValue
\* for DATABASE_URL with no DatabasePools, in every DB_OFFLINE mode,
\* follower included.
C6_DatabaseUrlRequired ==
    (Done /\ ~IsSet("DATABASE_URL")) =>
        /\ Result.kind = "MissingRequiredValue"
        /\ Result.var = "DATABASE_URL"
        /\ Result.pools = None

C6_Witness ==
    /\ Done
    /\ ~IsSet("DATABASE_URL")
    /\ FollowerMode
    /\ Result.kind = "MissingRequiredValue"

\* C7 as stated: for each numeric variable, in every mode: unset, its setting
\* has the declared default; set and well-formed, its setting has the parsed
\* value; set and malformed, the call ends in InvalidNumericValue with no
\* DatabasePools.
C7_Original ==
    \A v \in NumericVarSet :
        /\ (Succeeded /\ Appears(v, Pools) /\ ~IsSet(v)) =>
              Setting(v, Pools) = Default(v)
        /\ (Succeeded /\ Appears(v, Pools) /\ WellFormed(v)) =>
              Setting(v, Pools) = Decimal(Value(v))
        /\ (Done /\ Malformed(v)) =>
              Result.kind = "InvalidNumericValue" /\ Result.pools = None

\* C7 (amended): for each numeric variable, in every mode: unset, its setting
\* has the declared default; set and well-formed, its setting has the parsed
\* value; set and malformed, the call fails with no DatabasePools, in
\* InvalidNumericValue when DATABASE_URL is set and in MissingRequiredValue
\* when it is not (DATABASE_URL is read first).
C7_NumericSettings ==
    \A v \in NumericVarSet :
        /\ (Succeeded /\ Appears(v, Pools) /\ ~IsSet(v)) =>
              Setting(v, Pools) = Default(v)
        /\ (Succeeded /\ Appears(v, Pools) /\ WellFormed(v)) =>
              Setting(v, Pools) = Decimal(Value(v))
        /\ (Done /\ Malformed(v)) =>
              /\ Result.pools = None
              /\ Result.kind = IF IsSet("DATABASE_URL")
                               THEN "InvalidNumericValue"
                               ELSE "MissingRequiredValue"

C7_Witness ==
    /\ Done
    /\ LeaderMode
    /\ IsSet("DATABASE_URL")
    /\ IsSet("READ_ONLY_REPLICA_URL")
    /\ Malformed("DB_REPLICA_POOL_SIZE")
    /\ WellFormed("DB_PRIMARY_POOL_SIZE")
    /\ Result.kind = "InvalidNumericValue"
    /\ Result.var = "DB_REPLICA_POOL_SIZE"

\* C8: if READ_ONLY_MODE is set, to any value, the empty string included,
\* then in every mode every pool of a successful result is read-only; and the
\* call ends the same way whatever the value is.
C8_ReadOnlyModeByPresence ==
    (Done /\ IsSet("READ_ONLY_MODE")) =>
        /\ Succeeded => AllPoolsReadOnly(Pools)
        /\ \A x \in {"", "1", "0", "false"} :
              Result = full_from_environment(
                           base, [environment EXCEPT !["READ_ONLY_MODE"] = Some(x)])

C8_Witness ==
    /\ Succeeded
    /\ environment["READ_ONLY_MODE"] = Some("")
    /\ NormalMode
    /\ IsSome(Pools.replica)
    /\ Pools.primary.read_only_mode

\* C9: on every successful result, in every mode, are_all_read_only() returns
\* primary.read_only_mode, and returns true exactly when every configured
\* pool (the primary, and the replica if any) is read-only.
C9_AreAllReadOnly ==
    (Succeeded /\ IsSome(all_read_only)) =>
        /\ Unwrap(all_read_only) = Pools.primary.read_only_mode
        /\ Unwrap(all_read_only) <=> AllPoolsReadOnly(Pools)

C9_Witness ==
    /\ Succeeded
    /\ all_read_only = Some(FALSE)
    /\ IsSome(Pools.replica)
    /\ Unwrap(Pools.replica).read_only_mode

\* C10: on every successful result, in every mode, statement_timeout equals
\* connection_timeout, and both are DB_TIMEOUT seconds when that variable is
\* set and well-formed, and 30 seconds when it is unset.
C10_TimeoutsEqual ==
    Succeeded =>
        /\ Pools.statement_timeout = Pools.connection_timeout
        /\ ~IsSet("DB_TIMEOUT") =>
              Pools.connection_timeout = [secs |-> 30, nanos |-> 0]
        /\ WellFormed("DB_TIMEOUT") =>
              Pools.connection_timeout =
                  [secs |-> Unwrap(Decimal(Value("DB_TIMEOUT"))), nanos |-> 0]

C10_Witness ==
    /\ Succeeded
    /\ environment["DB_TIMEOUT"] = Some(<<"6", "0">>)
    /\ Pools.statement_timeout = [secs |-> 60, nanos |-> 0]

====
